---- MODULE Spec2Model ----
(***************************************************************************)
(* Navigation and pursuit core of the maze-chase game: the grid           *)
(* pathfinder (src/ai/pathfinding.py), the behaviour engine                *)
(* (src/ai/controller.py) and the entity movement model                    *)
(* (src/entities.py).                                                      *)
(*                                                                         *)
(* The world is GRID_WIDTH x GRID_HEIGHT cells; settings.py sets 28 x 31,  *)
(* the model works on the 5 x 5 world of the pathfinder's open-grid        *)
(* scenario.  Cells are <<column, row>>, 0-based as in the code, and       *)
(* maze[y][x] is the marker of cell <<x, y>> ("X" wall, " " open,          *)
(* "." pellet, "o" power pellet).  Continuous positions are whole pixels   *)
(* and one call of update_position moves by step = speed * dt pixels.      *)
(***************************************************************************)
EXTENDS Integers, Sequences, FiniteSets, TLC

VARIABLES
    maze,       \* Maze.grid
    a_start,    \* astar_path: start
    a_goals,    \* astar_path: goals
    a_pc,       \* astar_path: "idle", "call", "search" or "done"
    a_path,     \* astar_path: the returned list
    search,     \* astar_path: open_heap, came_from, g_scores of the running loop
    ctx,        \* decide_mode: the observed world (positions, pursuers' modes)
    decision,   \* decide_mode: the returned (behaviour, target), or NoDecision
    ent,        \* Entity: grid_pos, pixel_pos, direction
    last,       \* the last call on the entity: its pre-state, input and branch
    pacman,     \* Game.pacman: the Entity fields, desired_direction, autopilot
    ghosts,     \* Game.ghosts: the Entity fields, mode, frightened_timer, ...
    game,       \* Game: score, lives, running, auto_replan, scatter_timer
    glast       \* the last call on a pursuer or the game: pre-state and inputs

vars == <<maze, a_start, a_goals, a_pc, a_path, search, ctx, decision, ent, last,
          pacman, ghosts, game, glast>>

-----------------------------------------------------------------------------
(* settings.py *)

TILE_SIZE == 24
GRID_WIDTH == 5
GRID_HEIGHT == 5
SCREEN_WIDTH == GRID_WIDTH * TILE_SIZE

\* dt is a whole number of ticks of 1/TicksPerSecond second; speeds are in
\* tenths of a pixel per second (5, 4.2 and 3.2 tiles per second).  The power
\* mode lasts POWER_MODE_DURATION seconds: 8 in settings.py, 2 in the model.
TicksPerSecond == 10
PACMAN_SPEED == 50 * TILE_SIZE
PACMAN_LIVES == 3
GHOST_SPEED == 42 * TILE_SIZE
FRIGHTENED_SPEED == 32 * TILE_SIZE
POWER_MODE_DURATION == 2

Cols == 0 .. (GRID_WIDTH - 1)
Rows == 0 .. (GRID_HEIGHT - 1)
Cells == Cols \X Rows

Abs(n) == IF n < 0 THEN -n ELSE n

-----------------------------------------------------------------------------
(* maze.py *)

\* A grid whose walls are the cells of ws; every other cell is open.
GridOf(ws) == [y \in Rows |-> [x \in Cols |-> IF <<x, y>> \in ws THEN "X" ELSE " "]]

IsWall(m, c) == m[c[2]][c[1]] = "X"

-----------------------------------------------------------------------------
(* ai/pathfinding.py *)

\* min(abs(cx - gx) + abs(cy - gy) for gx, gy in goals), 0.0 without goals.
heuristic(current, goals) ==
    IF goals = {} THEN 0
    ELSE LET ds == {Abs(current[1] - g[1]) + Abs(current[2] - g[2]) : g \in goals}
         IN  CHOOSE d \in ds : \A e \in ds : d <= e

NeighbourOffsets == << <<-1, 0>>, <<1, 0>>, <<0, -1>>, <<0, 1>> >>

\* The column after the wrap of neighbours(): nx < 0 -> last, nx >= width -> 0.
WrapColumn(nx) ==
    IF nx < 0 THEN GRID_WIDTH - 1
    ELSE IF nx >= GRID_WIDTH THEN 0
    ELSE nx

\* Mutation of neighbours: the wall test is dropped.
neighbours_through_walls(position, m) ==
    LET cand == [i \in 1..4 |-> <<WrapColumn(position[1] + NeighbourOffsets[i][1]),
                                  position[2] + NeighbourOffsets[i][2]>>]
        ok(c) == ~(c[2] < 0 \/ c[2] >= GRID_HEIGHT)
    IN  SelectSeq(cand, ok)

\* Mutation of neighbours: a column off the grid is skipped, not wrapped.
neighbours_no_wrap(position, m) ==
    LET cand == [i \in 1..4 |-> <<position[1] + NeighbourOffsets[i][1],
                                  position[2] + NeighbourOffsets[i][2]>>]
        ok(c) == c \in Cells /\ m[c[2]][c[1]] # "X"
    IN  SelectSeq(cand, ok)

\* The cells neighbours() yields, in the order it yields them.
neighbours(position, m) ==
    LET cand == [i \in 1..4 |-> <<WrapColumn(position[1] + NeighbourOffsets[i][1]),
                                  position[2] + NeighbourOffsets[i][2]>>]
        ok(c) == ~(c[2] < 0 \/ c[2] >= GRID_HEIGHT) /\ m[c[2]][c[1]] # "X"
    IN  SelectSeq(cand, ok)

RECURSIVE walk_back(_, _)
\* The loop of reconstruct_path: current, came_from[current], ... (goal first).
walk_back(came_from, current) ==
    IF current \in DOMAIN came_from
    THEN <<current>> \o walk_back(came_from, came_from[current])
    ELSE <<current>>

Reverse(s) == [i \in 1..Len(s) |-> s[Len(s) + 1 - i]]

\* Mutation of reconstruct_path: the list is not reversed.
reconstruct_path_unreversed(came_from, current) == walk_back(came_from, current)

reconstruct_path(came_from, current) == Reverse(walk_back(came_from, current))

\* Tuple order of the heap entries (f, g, (x, y)).
EntryLess(a, b) ==
    \/ a[1] < b[1]
    \/ a[1] = b[1] /\ a[2] < b[2]
    \/ a[1] = b[1] /\ a[2] = b[2] /\ a[3][1] < b[3][1]
    \/ a[1] = b[1] /\ a[2] = b[2] /\ a[3][1] = b[3][1] /\ a[3][2] < b[3][2]

\* The entry heappop returns: the least one.
HeapMin(heap) == CHOOSE e \in heap : \A o \in heap : o = e \/ EntryLess(e, o)

\* Mutation of HeapRemove: the popped entry stays on the heap.
HeapRemove_keep(heap, e) == heap

HeapRemove(heap, e) == heap \ {e}

\* One pass of the body of "for neighbour in neighbours(current, maze)".
Relax(s, goals, current, g_cost, neighbour) ==
    LET tentative_g == g_cost + 1
    IN  IF neighbour \notin DOMAIN s.g_scores \/ tentative_g < s.g_scores[neighbour]
        THEN [s EXCEPT
                !.came_from = (neighbour :> current) @@ @,
                !.g_scores = (neighbour :> tentative_g) @@ @,
                !.open_heap = @ \cup {<<tentative_g + heuristic(neighbour, goals),
                                        tentative_g, neighbour>>}]
        ELSE s

RECURSIVE RelaxAll(_, _, _, _, _, _)
\* The for loop over neighbours(current, maze), from its i-th cell on.  (The
\* state after each pass is bound as a value, v, before the next pass reads it.)
RelaxAll(s, goals, current, g_cost, ns, i) ==
    IF i > Len(ns) THEN s
    ELSE CHOOSE r \in {RelaxAll(v, goals, current, g_cost, ns, i + 1) :
                          v \in {Relax(s, goals, current, g_cost, ns[i])}} : TRUE

\* The state astar_path sets up before its loop.
SearchInit(start, goals) ==
    [open_heap |-> {<<heuristic(start, goals), 0, start>>},
     came_from |-> <<>>,
     g_scores  |-> (start :> 0),
     done      |-> FALSE,
     path      |-> <<>>]

\* The loop body for the popped entry e = (f_cost, g_cost, current).
Expand(m, goals, s, e) ==
    LET g_cost  == e[2]
        current == e[3]
        popped  == [s EXCEPT !.open_heap = HeapRemove(@, e)]
    IN  IF current \in goals
        THEN [popped EXCEPT !.done = TRUE,
                            !.path = reconstruct_path(s.came_from, current)]
        ELSE CHOOSE r \in {RelaxAll(p, goals, current, g_cost, ns, 1) :
                              p \in {popped}, ns \in {neighbours(current, m)}} : TRUE

\* One turn of "while open_heap": the loop's exit, or the pop and its body.
SearchIter(m, goals, s) ==
    IF s.open_heap = {}
    THEN [s EXCEPT !.done = TRUE, !.path = <<>>]
    ELSE CHOOSE r \in {Expand(m, goals, s, e) : e \in {HeapMin(s.open_heap)}} : TRUE

RECURSIVE SearchLoop(_, _, _)
SearchLoop(m, goals, s) ==
    IF s.done THEN s
    ELSE CHOOSE r \in {SearchLoop(m, goals, t) : t \in {SearchIter(m, goals, s)}} : TRUE

astar_path(m, start, goals) ==
    IF start \in goals THEN <<start>>
    ELSE SearchLoop(m, goals, SearchInit(start, goals)).path

-----------------------------------------------------------------------------
(* ai/controller.py *)

DISTANCE_THRESHOLD == 6

\* GhostContext as observe_ghost_state builds it; modes are the pursuers' modes.
observe_ghost_state(pacman_pos, ghost_pos, scatter_corner, modes) ==
    [pacman_pos         |-> pacman_pos,
     ghost_pos          |-> ghost_pos,
     scatter_corner     |-> scatter_corner,
     power_mode_active  |-> \E i \in DOMAIN modes : modes[i] = "FRIGHTENED",
     distance_threshold |-> DISTANCE_THRESHOLD]

manhattan(a, b) == Abs(a[1] - b[1]) + Abs(a[2] - b[2])

\* Mutation of decide_mode: the distance test comes before the power-mode test.
decide_mode_distance_first(context) ==
    LET distance == manhattan(context.ghost_pos, context.pacman_pos)
    IN  IF distance <= context.distance_threshold
        THEN <<"attaque", context.pacman_pos>>
        ELSE IF context.power_mode_active
        THEN <<"fuite", context.scatter_corner>>
        ELSE <<"patrouille", context.scatter_corner>>

\* Mutation of decide_mode: the threshold is exclusive.
decide_mode_exclusive(context) ==
    LET distance == manhattan(context.ghost_pos, context.pacman_pos)
    IN  IF context.power_mode_active
        THEN <<"fuite", context.scatter_corner>>
        ELSE IF distance < context.distance_threshold
        THEN <<"attaque", context.pacman_pos>>
        ELSE <<"patrouille", context.scatter_corner>>

\* (behaviour, target): "fuite" flee, "attaque" attack, "patrouille" patrol.
decide_mode(context) ==
    LET distance == manhattan(context.ghost_pos, context.pacman_pos)
    IN  IF context.power_mode_active
        THEN <<"fuite", context.scatter_corner>>
        ELSE IF distance <= context.distance_threshold
        THEN <<"attaque", context.pacman_pos>>
        ELSE <<"patrouille", context.scatter_corner>>

-----------------------------------------------------------------------------
(* entities.py *)

DIRECTIONS == << <<-1, 0>>, <<1, 0>>, <<0, -1>>, <<0, 1>> >>    \* left, right, up, down

Zero == <<0, 0>>

grid_to_pixel(grid_pos) ==
    <<grid_pos[1] * TILE_SIZE + TILE_SIZE \div 2, grid_pos[2] * TILE_SIZE + TILE_SIZE \div 2>>

\* Floor division, as // in the code: a position left of the world is column -1.
pixel_to_grid(pixel_pos) == <<pixel_pos[1] \div TILE_SIZE, pixel_pos[2] \div TILE_SIZE>>

valid_tile(m, grid_pos) ==
    IF grid_pos[1] < 0 \/ grid_pos[2] < 0 \/ grid_pos[2] >= GRID_HEIGHT \/ grid_pos[1] >= GRID_WIDTH
    THEN FALSE
    ELSE m[grid_pos[2]][grid_pos[1]] # "X"

portal_adjust(grid_pos) ==
    IF grid_pos[1] < 0 THEN <<GRID_WIDTH - 1, grid_pos[2]>>
    ELSE IF grid_pos[1] >= GRID_WIDTH THEN <<0, grid_pos[2]>>
    ELSE grid_pos

\* abs(pixel - centre) < 0.5 on both axes; positions are whole pixels.
is_at_center(e) ==
    LET center == grid_to_pixel(e.grid_pos)
    IN  /\ 2 * Abs(e.pixel_pos[1] - center[1]) < 1
        /\ 2 * Abs(e.pixel_pos[2] - center[2]) < 1

\* pixel_pos after "pixel_pos += direction * speed * dt", step = speed * dt.
Integrated(e, step) ==
    <<e.pixel_pos[1] + e.direction[1] * step, e.pixel_pos[2] + e.direction[2] * step>>

\* The screen-wrap branches of update_position, and pixel_pos after them.
WrapsLeft(e, step) == Integrated(e, step)[1] < -TILE_SIZE
WrapsRight(e, step) == ~WrapsLeft(e, step) /\ Integrated(e, step)[1] > SCREEN_WIDTH + TILE_SIZE
Teleported(e, step) == WrapsLeft(e, step) \/ WrapsRight(e, step)

AfterWrap(e, step) ==
    IF WrapsLeft(e, step) THEN <<SCREEN_WIDTH + TILE_SIZE, Integrated(e, step)[2]>>
    ELSE IF WrapsRight(e, step) THEN <<-TILE_SIZE, Integrated(e, step)[2]>>
    ELSE Integrated(e, step)

NewGrid(e, step) == portal_adjust(pixel_to_grid(AfterWrap(e, step)))

\* Which way update_position goes: "noop" (no direction), "rejected" (revert
\* and stop), "wrapped" (teleport), "entered" (new cell) or "stayed" (same cell).
UpdateBranch(e, m, step) ==
    IF e.direction = Zero THEN "noop"
    ELSE IF ~Teleported(e, step) /\ ~valid_tile(m, NewGrid(e, step)) THEN "rejected"
    ELSE IF Teleported(e, step) THEN "wrapped"
    ELSE IF NewGrid(e, step) # e.grid_pos THEN "entered"
    ELSE "stayed"

\* The lane lock of the same-cell branch.
AxisLocked(e, pos) ==
    LET center == grid_to_pixel(e.grid_pos)
    IN  <<IF e.direction[1] = 0 THEN center[1] ELSE pos[1],
          IF e.direction[2] = 0 THEN center[2] ELSE pos[2]>>

\* Mutation of update_position: no snap to the centre of a newly entered cell.
update_position_no_snap(e, m, step) ==
    IF e.direction = Zero THEN e
    ELSE IF ~Teleported(e, step) /\ ~valid_tile(m, NewGrid(e, step))
    THEN [e EXCEPT !.direction = Zero]
    ELSE IF Teleported(e, step)
    THEN [e EXCEPT !.grid_pos = NewGrid(e, step),
                   !.pixel_pos = grid_to_pixel(NewGrid(e, step))]
    ELSE [e EXCEPT !.grid_pos = NewGrid(e, step), !.pixel_pos = AfterWrap(e, step)]

\* Mutation of update_position: the cell is not updated on entering a new one.
update_position_keeps_cell(e, m, step) ==
    IF e.direction = Zero THEN e
    ELSE IF ~Teleported(e, step) /\ ~valid_tile(m, NewGrid(e, step))
    THEN [e EXCEPT !.direction = Zero]
    ELSE IF Teleported(e, step)
    THEN [e EXCEPT !.grid_pos = NewGrid(e, step),
                   !.pixel_pos = grid_to_pixel(NewGrid(e, step))]
    ELSE [e EXCEPT !.pixel_pos = AfterWrap(e, step)]

\* Entity.update_position(dt) with step = speed * dt.
update_position(e, m, step) ==
    IF e.direction = Zero THEN e
    ELSE IF ~Teleported(e, step) /\ ~valid_tile(m, NewGrid(e, step))
    THEN [e EXCEPT !.direction = Zero]
    ELSE IF Teleported(e, step) \/ NewGrid(e, step) # e.grid_pos
    THEN [e EXCEPT !.grid_pos = NewGrid(e, step),
                   !.pixel_pos = grid_to_pixel(NewGrid(e, step))]
    ELSE [e EXCEPT !.pixel_pos = AxisLocked(e, AfterWrap(e, step))]

\* speed * dt in whole pixels.
StepOf(speed, dt) == (speed * dt) \div (10 * TicksPerSecond)

Plus(a, b) == <<a[1] + b[1], a[2] + b[2]>>
Minus(a, b) == <<a[1] - b[1], a[2] - b[2]>>

\* Vector2.length_squared of a - b.
SquaredDistance(a, b) == (a[1] - b[1]) * (a[1] - b[1]) + (a[2] - b[2]) * (a[2] - b[2])

\* The directions, in the order of DIRECTIONS, whose cell is traversable and
\* is not the cell behind a moving entity.
available_directions(e, m) ==
    LET chosen(vector) ==
            LET next_pos == portal_adjust(Plus(e.grid_pos, vector))
            IN  /\ valid_tile(m, next_pos)
                /\ ~(e.direction # Zero /\ next_pos = portal_adjust(Minus(e.grid_pos, e.direction)))
    IN  SelectSeq(DIRECTIONS, chosen)

-----------------------------------------------------------------------------
(* entities.py: Ghost *)

\* Vector2(13, 11) in the code: the first pursuer's start cell, here the
\* middle of the top corridor.
GHOST_HOME == <<2, 1>>

\* The countdown of a pursuer just frightened, in ticks.
FullCountdown == POWER_MODE_DURATION * TicksPerSecond

\* Mutation of set_mode: the countdown is not reloaded.
set_mode_keeps_timer(g, mode) == [g EXCEPT !.mode = mode]

\* The countdown is in ticks.
set_mode(g, mode) ==
    [g EXCEPT !.frightened_timer = IF mode = "FRIGHTENED"
                                   THEN POWER_MODE_DURATION * TicksPerSecond ELSE @,
              !.mode = mode]

\* Ghost.update, the countdown of a frightened pursuer.
CountDown(g, dt) ==
    IF g.mode = "FRIGHTENED"
    THEN [g EXCEPT !.frightened_timer = @ - dt,
                   !.mode = IF g.frightened_timer - dt <= 0 THEN "CHASE" ELSE @]
    ELSE g

compute_path(m, ghost_pos, target) == astar_path(m, ghost_pos, {target})

\* Vector2.normalize of a vector along one axis.
normalize(v) ==
    IF v[2] = 0 THEN <<IF v[1] > 0 THEN 1 ELSE -1, 0>>
    ELSE IF v[1] = 0 THEN <<0, IF v[2] > 0 THEN 1 ELSE -1>>
    ELSE v

PursuitSpeed(g) == IF g.mode = "FRIGHTENED" THEN FRIGHTENED_SPEED ELSE GHOST_SPEED

\* The pursuer as Ghost.update hands it to update_position when the path has
\* at least two cells: direction from grid_pos to path[1] (the second cell).
Directed(g, path) ==
    LET direction == Minus(path[2], g.grid_pos)
    IN  [g EXCEPT !.direction = IF direction # Zero THEN normalize(direction) ELSE @,
                  !.speed = PursuitSpeed(g)]

choose_target(g, pacman_pos, scatter_timer) ==
    LET cycle == (scatter_timer \div TicksPerSecond) % 12
    IN  IF g.mode = "EATEN" THEN GHOST_HOME
        ELSE IF g.mode = "FRIGHTENED"
        THEN <<GRID_WIDTH - pacman_pos[1], GRID_HEIGHT - pacman_pos[2]>>
        ELSE IF cycle < 4 THEN g.home_corner
        ELSE IF g.mode = "SCATTER" THEN g.home_corner
        ELSE pacman_pos

RECURSIVE best_direction_last(_, _, _, _, _, _)
\* Mutation of best_direction: a tie goes to the later direction.
best_direction_last(possible, i, best_dir, best_distance, e, target) ==
    IF i > Len(possible) THEN best_dir
    ELSE LET distance == SquaredDistance(portal_adjust(Plus(e.grid_pos, possible[i])), target)
         IN  IF best_distance = <<>> \/ distance <= best_distance[1]
             THEN best_direction_last(possible, i + 1, possible[i], <<distance>>, e, target)
             ELSE best_direction_last(possible, i + 1, best_dir, best_distance, e, target)

RECURSIVE best_direction(_, _, _, _, _, _)
\* The loop of move_towards over possible[i..]; best_distance is <<>> for
\* float("inf") and <<d>> for d.
best_direction(possible, i, best_dir, best_distance, e, target) ==
    IF i > Len(possible) THEN best_dir
    ELSE LET distance == SquaredDistance(portal_adjust(Plus(e.grid_pos, possible[i])), target)
         IN  IF best_distance = <<>> \/ distance < best_distance[1]
             THEN best_direction(possible, i + 1, possible[i], <<distance>>, e, target)
             ELSE best_direction(possible, i + 1, best_dir, best_distance, e, target)

\* move_towards: the test that completes the respawn of an eaten pursuer.
Respawns(g) == g.mode = "EATEN" /\ is_at_center(g) /\ g.grid_pos = GHOST_HOME

\* move_towards: the pursuer as it is handed to update_position.
Steered(g, target, m) ==
    LET possible == available_directions(g, m)
        turned == IF possible = <<>>
                  THEN [g EXCEPT !.direction = <<-g.direction[1], -g.direction[2]>>]
                  ELSE [g EXCEPT !.direction =
                                    best_direction(possible, 1, possible[1], <<>>, g, target)]
    IN  [turned EXCEPT !.speed = PursuitSpeed(g)]

\* Mutation of move_towards: an eaten pursuer on the home cell is steered on.
move_towards_no_respawn(g, target, dt, m) ==
    update_position(Steered(g, target, m), m, StepOf(PursuitSpeed(g), dt))

move_towards(g, target, dt, m) ==
    IF Respawns(g)
    THEN [g EXCEPT !.mode = "CHASE", !.direction = DIRECTIONS[1]]
    ELSE update_position(Steered(g, target, m), m, StepOf(PursuitSpeed(g), dt))

\* Ghost.update up to the path: the pursuer after the countdown and the
\* behaviour decision, the target tile and the path to it.  The modes the
\* behaviour engine sees are those of gs, with the pursuer's own counted down.
Pursuit(gs, i, dt, pacman_pos, m) ==
    LET counted == CountDown(gs[i], dt)
        modes == [j \in DOMAIN gs |-> IF j = i THEN counted.mode ELSE gs[j].mode]
        context == observe_ghost_state(pacman_pos, counted.grid_pos, counted.home_corner, modes)
        decided == decide_mode(context)
        target_tile == IF counted.mode = "EATEN" THEN GHOST_HOME ELSE decided[2]
    IN  [ghost  |-> IF counted.mode = "EATEN" THEN counted
                    ELSE [counted EXCEPT !.behaviour = decided[1]],
         target |-> target_tile,
         path   |-> compute_path(m, counted.grid_pos, target_tile)]

\* Ghost.update from the path on: the pursuer it leaves, with the path, the
\* pursuit target, whether the fallback ran, and the direction handed to
\* update_position (the direction the respawn sets when it runs instead).
Pursue(p, dt, pacman_pos, scatter_timer, m) ==
    IF Len(p.path) >= 2
    THEN [ghost    |-> update_position(Directed(p.ghost, p.path), m,
                                       StepOf(PursuitSpeed(p.ghost), dt)),
          path     |-> p.path,
          target   |-> p.target,
          fallback |-> FALSE,
          handed   |-> Directed(p.ghost, p.path).direction]
    ELSE [ghost    |-> move_towards(p.ghost, choose_target(p.ghost, pacman_pos, scatter_timer),
                                    dt, m),
          path     |-> p.path,
          target   |-> p.target,
          fallback |-> TRUE,
          handed   |-> IF Respawns(p.ghost) THEN DIRECTIONS[1]
                       ELSE Steered(p.ghost, choose_target(p.ghost, pacman_pos, scatter_timer),
                                    m).direction]

\* Ghost.update(dt, pacman, scatter_timer, ghosts) of pursuer i of gs, traced.
GhostTrace(gs, i, dt, pacman_pos, scatter_timer, m) ==
    CHOOSE r \in {Pursue(p, dt, pacman_pos, scatter_timer, m) :
                     p \in {Pursuit(gs, i, dt, pacman_pos, m)}} : TRUE

Ghost_update(gs, i, dt, pacman_pos, scatter_timer, m) ==
    GhostTrace(gs, i, dt, pacman_pos, scatter_timer, m).ghost

-----------------------------------------------------------------------------
(* entities.py: Pacman *)

enable_autopilot(p, enabled) ==
    [p EXCEPT !.autopilot_enabled = enabled,
              !.auto_queue = IF enabled THEN @ ELSE <<>>]

set_autopilot_path(p, directions) == [p EXCEPT !.auto_queue = directions]

\* Pacman.handle_input with the key of direction vector held down.
handle_input(p, vector) ==
    IF p.autopilot_enabled THEN p ELSE [p EXCEPT !.desired_direction = vector]

\* Mutation of update_autopilot: an invalid next step is left in the queue.
update_autopilot_keeps(p, m) ==
    IF ~p.autopilot_enabled THEN p
    ELSE IF p.auto_queue = <<>> THEN [p EXCEPT !.desired_direction = Zero]
    ELSE IF is_at_center(p) /\ valid_tile(m, portal_adjust(Plus(p.grid_pos, Head(p.auto_queue))))
    THEN [p EXCEPT !.desired_direction = Head(p.auto_queue), !.auto_queue = Tail(@)]
    ELSE p

update_autopilot(p, m) ==
    IF ~p.autopilot_enabled THEN p
    ELSE IF p.auto_queue = <<>> THEN [p EXCEPT !.desired_direction = Zero]
    ELSE IF is_at_center(p)
    THEN IF valid_tile(m, portal_adjust(Plus(p.grid_pos, Head(p.auto_queue))))
         THEN [p EXCEPT !.desired_direction = Head(p.auto_queue), !.auto_queue = Tail(@)]
         ELSE [p EXCEPT !.auto_queue = <<>>]
    ELSE p

\* Mutation of Turned: the turn does not wait for a cell centre.
Turned_anywhere(p, m) ==
    IF /\ p.desired_direction # Zero
       /\ valid_tile(m, portal_adjust(Plus(p.grid_pos, p.desired_direction)))
    THEN [p EXCEPT !.direction = p.desired_direction]
    ELSE p

\* Pacman.update from the turn on: take the desired direction at a centre when
\* its cell is traversable, stop at a centre in front of a wall, else move.
Turned(p, m) ==
    IF /\ p.desired_direction # Zero
       /\ is_at_center(p)
       /\ valid_tile(m, portal_adjust(Plus(p.grid_pos, p.desired_direction)))
    THEN [p EXCEPT !.direction = p.desired_direction]
    ELSE p

Advance(p, dt, m) ==
    IF p.direction = Zero THEN p
    ELSE IF is_at_center(p) /\ ~valid_tile(m, portal_adjust(Plus(p.grid_pos, p.direction)))
    THEN [p EXCEPT !.direction = Zero]
    ELSE update_position(p, m, StepOf(p.speed, dt))

\* Pacman.update(dt)
Pacman_update(p, dt, m) ==
    CHOOSE r \in {Advance(t, dt, m) : t \in {Turned(update_autopilot(p, m), m)}} : TRUE

-----------------------------------------------------------------------------
(* maze.py: pellets; game.py: the autopilot planner *)

\* Maze.remaining_pellets, as a set of cells.
remaining_pellets(m) == {c \in Cells : m[c[2]][c[1]] \in {".", "o"}}

\* Maze.consume_tile(x, y): the grid it leaves (the marker it returns is the
\* one the cell had).
consume_tile(m, c) ==
    IF m[c[2]][c[1]] \in {".", "o"} THEN [m EXCEPT ![c[2]][c[1]] = " "] ELSE m

\* Mutation of StepDirection: the delta of a wrap step is cut down to a unit
\* vector of the same sign.
StepDirection_clamped(current, nxt) ==
    LET dx == nxt[1] - current[1]
        dy == nxt[2] - current[2]
    IN  <<IF dx > 1 THEN 1 ELSE IF dx < -1 THEN -1 ELSE dx,
          IF dy > 1 THEN 1 ELSE IF dy < -1 THEN -1 ELSE dy>>

\* Mutation of StepDirection: the delta of a wrap step is not corrected.
StepDirection_raw(current, nxt) == <<nxt[1] - current[1], nxt[2] - current[2]>>

\* compute_autopilot_path: the direction of one step of the path.
StepDirection(current, nxt) ==
    LET dx == nxt[1] - current[1]
        dy == nxt[2] - current[2]
    IN  <<IF dx > 1 THEN -1 ELSE IF dx < -1 THEN 1 ELSE dx,
          IF dy > 1 THEN -1 ELSE IF dy < -1 THEN 1 ELSE dy>>

PathDirections(path) == [k \in 1 .. Len(path) - 1 |-> StepDirection(path[k], path[k + 1])]

\* Mutation of Planned: a path of a single cell is taken as a plan.
Planned_any_path(p, path) ==
    IF Len(path) < 1 THEN enable_autopilot(p, FALSE)
    ELSE set_autopilot_path(enable_autopilot(p, TRUE), PathDirections(path))

\* compute_autopilot_path from the path on.
Planned(p, path) ==
    IF Len(path) < 2 THEN enable_autopilot(p, FALSE)
    ELSE set_autopilot_path(enable_autopilot(p, TRUE), PathDirections(path))

\* Game.compute_autopilot_path(targets): the player it leaves.  targets is a
\* set of cells; the default (None) is remaining_pellets(m).
compute_autopilot_path(p, m, targets_set) ==
    IF targets_set = {} THEN enable_autopilot(p, FALSE)
    ELSE CHOOSE r \in {Planned(p, path) : path \in {astar_path(m, p.grid_pos, targets_set)}} : TRUE

-----------------------------------------------------------------------------
(* The pathfinder's callers: a grid, a traversable start, a goal set. *)

MaxWalls == 3
MaxGoals == 1

RECURSIVE UpTo(_, _)
\* The subsets of S with at most k elements.
UpTo(S, k) ==
    IF k = 0 THEN {{}}
    ELSE LET P == UpTo(S, k - 1) IN P \cup {p \cup {x} : p \in P, x \in S}

\* Walls are placed round the corner cell (0,0): its neighbours across the wrap
\* edge, to the right and below, and the cell diagonal to it.
WallZone == {<<GRID_WIDTH - 1, 0>>, <<1, 0>>, <<0, 1>>, <<1, 1>>}

NoSearch == [open_heap |-> {}, came_from |-> <<>>, g_scores |-> <<>>,
             done |-> FALSE, path |-> <<>>]
NoCtx == [pacman_pos |-> Zero, ghost_pos |-> Zero, scatter_corner |-> Zero, modes |-> <<>>]
NoDecision == <<"none", Zero>>
NoEntity == [grid_pos |-> Zero, pixel_pos |-> grid_to_pixel(Zero), direction |-> Zero]
NoCall == [op |-> "none", before |-> NoEntity, step |-> 0, branch |-> "none", straight |-> FALSE]

\* Pacman.__init__ at start_pos.
NewPacman(start_pos) ==
    [grid_pos |-> start_pos, pixel_pos |-> grid_to_pixel(start_pos), direction |-> Zero,
     speed |-> PACMAN_SPEED, desired_direction |-> Zero,
     autopilot_enabled |-> FALSE, auto_queue |-> <<>>]

\* Ghost.__init__ at start_pos with scatter corner home_corner.
NewGhost(start_pos, home_corner) ==
    [grid_pos |-> start_pos, pixel_pos |-> grid_to_pixel(start_pos),
     direction |-> DIRECTIONS[1], speed |-> GHOST_SPEED, mode |-> "SCATTER",
     frightened_timer |-> 0, home_corner |-> home_corner, behaviour |-> "patrouille"]

NoPacman == NewPacman(Zero)
NoGame == [score |-> 0, lives |-> PACMAN_LIVES, running |-> FALSE,
           auto_replan |-> FALSE, scatter_timer |-> 0]
NoGameCall == [op |-> "none"]

InitAstar ==
    /\ pacman = NoPacman /\ ghosts = <<>> /\ game = NoGame /\ glast = NoGameCall
    /\ maze \in {GridOf(ws) : ws \in UpTo(WallZone, MaxWalls)}
    /\ a_start \in {c \in Cells : ~IsWall(maze, c)}
    /\ a_goals \in UpTo(Cells, MaxGoals)
    /\ a_pc = "call"
    /\ a_path = <<>>
    /\ search = NoSearch
    /\ ctx = NoCtx
    /\ decision = NoDecision
    /\ ent = NoEntity
    /\ last = NoCall

\* astar_path(maze, start, goals), as one call.
AstarCall ==
    /\ a_pc = "call"
    /\ a_path' = astar_path(maze, a_start, a_goals)
    /\ a_pc' = "done"
    /\ UNCHANGED <<maze, a_start, a_goals, search, ctx, decision, ent, last>>
    /\ UNCHANGED <<pacman, ghosts, game, glast>>

NextAstar == AstarCall

SpecAstar == InitAstar /\ [][NextAstar]_vars

\* astar_path up to its loop: the early return, or the first heap entry.
SearchEnter ==
    /\ a_pc = "call"
    /\ IF a_start \in a_goals
       THEN /\ a_path' = <<a_start>>
            /\ a_pc' = "done"
            /\ search' = search
       ELSE /\ search' = SearchInit(a_start, a_goals)
            /\ a_pc' = "search"
            /\ a_path' = a_path
    /\ UNCHANGED <<maze, a_start, a_goals, ctx, decision, ent, last>>
    /\ UNCHANGED <<pacman, ghosts, game, glast>>

\* One turn of the while loop; a return ends the call.
SearchStep ==
    /\ a_pc = "search"
    /\ search' = SearchIter(maze, a_goals, search)
    /\ IF search'.done
       THEN a_pc' = "done" /\ a_path' = search'.path
       ELSE a_pc' = "search" /\ a_path' = a_path
    /\ UNCHANGED <<maze, a_start, a_goals, ctx, decision, ent, last>>
    /\ UNCHANGED <<pacman, ghosts, game, glast>>

NextSearch == SearchEnter \/ SearchStep

\* The loop runs on one thread with nothing to wait for: each turn is taken.
SpecSearch == InitAstar /\ [][NextSearch]_vars /\ WF_vars(NextSearch)

-----------------------------------------------------------------------------
(* The pathfinder's contract, stated without the pathfinder's own helpers. *)

\* 4-adjacency with the horizontal wrap; never a vertical wrap.
Adjacent4(a, b) ==
    \/ a[2] = b[2] /\ Abs(a[1] - b[1]) \in {1, GRID_WIDTH - 1}
    \/ a[1] = b[1] /\ Abs(a[2] - b[2]) = 1

\* The traversable cells one move away from the cells of S.
MoveFrom(m, S) == {c \in Cells : ~IsWall(m, c) /\ \E a \in S : Adjacent4(a, c)}

RECURSIVE BfsDistance(_, _, _, _, _)
\* Breadth-first search: the least number of moves to a goal, -1 if there is none.
BfsDistance(m, frontier, seen, goals, d) ==
    IF frontier \cap goals # {} THEN d
    ELSE IF frontier = {} THEN -1
    ELSE LET nxt == MoveFrom(m, frontier) \ seen
         IN  BfsDistance(m, nxt, seen \cup nxt, goals, d + 1)

ShortestDistance(m, start, goals) == BfsDistance(m, {start}, {start}, goals, 0)

GoalReachable == ShortestDistance(maze, a_start, a_goals) >= 0

Manhattan(a, b) == Abs(a[1] - b[1]) + Abs(a[2] - b[2])

CrossesWrap(path) ==
    \E i \in 1..(Len(path) - 1) : Abs(path[i][1] - path[i + 1][1]) = GRID_WIDTH - 1

\* C1: when a goal is reachable, the returned path has as many moves as the
\* breadth-first distance from start to the nearest goal, with or without a
\* route across the wrap edge.
C1_PathIsShortest ==
    (a_pc = "done" /\ GoalReachable)
        => Len(a_path) - 1 = ShortestDistance(maze, a_start, a_goals)

\* C2: every cell of the returned path is a cell of the grid that is no wall,
\* and consecutive cells are 4-adjacent (horizontal wrap included).
C2_PathIsValid ==
    a_pc = "done" =>
        /\ \A i \in 1..Len(a_path) : a_path[i] \in Cells /\ ~IsWall(maze, a_path[i])
        /\ \A i \in 1..(Len(a_path) - 1) : Adjacent4(a_path[i], a_path[i + 1])

\* A path that goes round a wall and across the wrap edge.
C2_Witness ==
    /\ a_pc = "done"
    /\ Len(a_path) >= 4
    /\ CrossesWrap(a_path)
    /\ \E c \in Cells : IsWall(maze, c)
    /\ Len(a_path) - 1 > Manhattan(a_start, a_path[Len(a_path)])

\* C3: the result is empty exactly when no goal is reachable; otherwise it
\* runs from start to a goal, and it is [start] when start is a goal.
C3_EmptyIffUnreachable ==
    a_pc = "done" =>
        /\ (a_path = <<>>) <=> ~GoalReachable
        /\ a_path # <<>> => a_path[1] = a_start /\ a_path[Len(a_path)] \in a_goals
        /\ a_start \in a_goals => a_path = <<a_start>>

\* A goal that is no wall but is walled in: the search ends with the empty list.
C3_Witness ==
    /\ a_pc = "done"
    /\ a_path = <<>>
    /\ \E g \in a_goals : ~IsWall(maze, g) /\ MoveFrom(maze, {g}) = {}

OpenGridScenario ==
    /\ GRID_WIDTH = 5 /\ GRID_HEIGHT = 5
    /\ maze = GridOf({})
    /\ a_start = <<0, 0>>
    /\ a_goals = {<<4, 4>>}
    /\ a_pc = "done"

ManhattanDecreases(path, goal) ==
    \A i \in 1..(Len(path) - 1) : Manhattan(path[i + 1], goal) < Manhattan(path[i], goal)

PushOnlyOnDecrease ==
    \A e \in search'.open_heap \ search.open_heap :
        /\ e[2] = search'.g_scores[e[3]]
        /\ e[3] \in DOMAIN search.g_scores => e[2] < search.g_scores[e[3]]

\* C4: the search loop ends for every grid, start and goal set, and a cell is
\* pushed on the frontier only when its g-score strictly decreases.
C4_SearchTerminates ==
    /\ [][a_pc = "search" => PushOnlyOnDecrease]_vars
    /\ <>(a_pc = "done")

\* The frontier of a search for an unreachable goal has been exhausted after
\* several turns of the loop.
C4_Witness ==
    /\ a_pc = "done"
    /\ a_path = <<>>
    /\ a_goals # {}
    /\ search.open_heap = {}
    /\ Cardinality(DOMAIN search.g_scores) >= 3

-----------------------------------------------------------------------------
(* The behaviour engine's caller: Ghost.update observes the world and asks
   for a decision, once per pursuer and tick. *)

MaxCoord == 5
NumGhosts == 2

GhostModes == {"SCATTER", "CHASE", "FRIGHTENED", "EATEN"}
Coords == (0 .. MaxCoord) \X (0 .. MaxCoord)

InitDecide ==
    /\ pacman = NoPacman /\ ghosts = <<>> /\ game = NoGame /\ glast = NoGameCall
    /\ ctx \in [pacman_pos     : Coords,
                ghost_pos      : Coords,
                scatter_corner : {<<0, 0>>, <<MaxCoord, 1>>},
                modes          : [1 .. NumGhosts -> GhostModes]]
    /\ decision = NoDecision
    /\ maze = GridOf({})
    /\ a_start = Zero
    /\ a_goals = {}
    /\ a_pc = "idle"
    /\ a_path = <<>>
    /\ search = NoSearch
    /\ ent = NoEntity
    /\ last = NoCall

\* decide_mode(observe_ghost_state(...)), as Ghost.update calls it.
Decide ==
    /\ decision = NoDecision
    /\ decision' = decide_mode(observe_ghost_state(ctx.pacman_pos, ctx.ghost_pos,
                                                   ctx.scatter_corner, ctx.modes))
    /\ UNCHANGED <<maze, a_start, a_goals, a_pc, a_path, search, ctx, ent, last>>
    /\ UNCHANGED <<pacman, ghosts, game, glast>>

NextDecide == Decide

SpecDecide == InitDecide /\ [][NextDecide]_vars

Decided == decision # NoDecision
AnyFrightened == \E i \in DOMAIN ctx.modes : ctx.modes[i] = "FRIGHTENED"
PlayerDistance == Abs(ctx.ghost_pos[1] - ctx.pacman_pos[1]) + Abs(ctx.ghost_pos[2] - ctx.pacman_pos[2])

\* C6: when any pursuer is Frightened the decision is (flee, scatter corner),
\* whatever the pursuer's and the player's cells, also within the threshold.
C6_FrightenedFlees ==
    (Decided /\ AnyFrightened) => decision = <<"fuite", ctx.scatter_corner>>

\* A pursuer within the engagement threshold of the player flees.
C6_Witness ==
    /\ Decided /\ AnyFrightened
    /\ PlayerDistance <= 6
    /\ ctx.pacman_pos # ctx.scatter_corner
    /\ decision[1] = "fuite"

\* C7: with no pursuer Frightened the decision is (attack, player cell) exactly
\* when the Manhattan distance is at most 6, and (patrol, scatter corner)
\* otherwise.
C7_AttackWithinThreshold ==
    (Decided /\ ~AnyFrightened) =>
        /\ (decision = <<"attaque", ctx.pacman_pos>>) <=> (PlayerDistance <= 6)
        /\ decision[1] = "attaque" => decision[2] = ctx.pacman_pos
        /\ PlayerDistance > 6 => decision = <<"patrouille", ctx.scatter_corner>>

\* The threshold itself: distance 6 attacks.
C7_Witness ==
    /\ Decided /\ ~AnyFrightened
    /\ PlayerDistance = 6
    /\ decision = <<"attaque", ctx.pacman_pos>>

-----------------------------------------------------------------------------
(* The movement model's callers: they set an entity's direction and call
   update_position(dt) once per tick. *)

MaxStep == 26

\* A maze with a tunnel row (row 2, open at both edges), a one-cell wall with
\* open cells on both sides (2,2), and walled edges in the other rows.
MoveMaze ==
    LET rows == << <<"X", "X", "X", "X", "X">>,
                   <<"X", " ", " ", " ", "X">>,
                   <<" ", " ", "X", " ", " ">>,
                   <<"X", " ", " ", " ", "X">>,
                   <<"X", "X", "X", "X", "X">> >>
    IN  [y \in Rows |-> [x \in Cols |-> rows[y + 1][x + 1]]]

InitMove ==
    /\ pacman = NoPacman /\ ghosts = <<>> /\ game = NoGame /\ glast = NoGameCall
    /\ maze = MoveMaze
    /\ \E c \in {c \in Cells : ~IsWall(maze, c)}, d \in {Zero} \cup {DIRECTIONS[i] : i \in 1..4} :
          ent = [grid_pos |-> c, pixel_pos |-> grid_to_pixel(c), direction |-> d]
    /\ last = [NoCall EXCEPT !.before = ent, !.straight = TRUE]
    /\ a_start = Zero
    /\ a_goals = {}
    /\ a_pc = "idle"
    /\ a_path = <<>>
    /\ search = NoSearch
    /\ ctx = NoCtx
    /\ decision = NoDecision

\* A caller assigns the entity's direction (Pacman.update, Ghost.update,
\* Ghost.move_towards).
SetDirection ==
    /\ \E d \in {Zero} \cup {DIRECTIONS[i] : i \in 1..4} :
          /\ d # ent.direction
          /\ ent' = [ent EXCEPT !.direction = d]
    /\ last' = [op |-> "turn", before |-> ent, step |-> 0, branch |-> "none",
                straight |-> (ent.pixel_pos = grid_to_pixel(ent.grid_pos))]
    /\ UNCHANGED <<maze, a_start, a_goals, a_pc, a_path, search, ctx, decision>>
    /\ UNCHANGED <<pacman, ghosts, game, glast>>

\* update_position(dt) with speed * dt = step pixels.
UpdatePosition ==
    /\ \E step \in 1 .. MaxStep :
          /\ ent' = update_position(ent, maze, step)
          /\ last' = [op |-> "update", before |-> ent, step |-> step,
                      branch |-> UpdateBranch(ent, maze, step),
                      straight |-> last.straight]
    /\ UNCHANGED <<maze, a_start, a_goals, a_pc, a_path, search, ctx, decision>>
    /\ UNCHANGED <<pacman, ghosts, game, glast>>

NextMove == SetDirection \/ UpdatePosition

SpecMove == InitMove /\ [][NextMove]_vars

Updated == last.op = "update"

\* The cell the entity's direction points to.
Ahead(e) == portal_adjust(<<e.grid_pos[1] + e.direction[1], e.grid_pos[2] + e.direction[2]>>)

PointsIntoWall(e) == e.direction # Zero /\ Ahead(e) \in Cells /\ IsWall(maze, Ahead(e))

\* The integrated position is outside the tile the entity was in.
LeavesTile(e, step) == pixel_to_grid(Integrated(e, step)) # e.grid_pos

\* C8: an update of an agent whose direction points into a wall cell never
\* changes its cell, and the update that would take it out of its tile is
\* rejected: position and cell keep their pre-move values, direction is zero.
C8_WallStopsAgent ==
    (Updated /\ PointsIntoWall(last.before)) =>
        /\ ent.grid_pos = last.before.grid_pos
        /\ LeavesTile(last.before, last.step) =>
              /\ ent.pixel_pos = last.before.pixel_pos
              /\ ent.direction = Zero

\* The axis the entity was moving along is horizontal.
Horizontal(e) == e.direction[2] = 0 /\ e.direction[1] # 0
Vertical(e) == e.direction[1] = 0 /\ e.direction[2] # 0

\* C9: an agent that set off from a tile centre in one fixed direction is, at
\* the update in which its cell changes, exactly at the centre of the cell it
\* entered (the neighbouring cell for a step of at most one tile), and after
\* every update its coordinate across the direction is the tile-centre value.
C9_SnapsToCentre ==
    (Updated /\ last.straight) =>
        /\ ent.grid_pos # last.before.grid_pos =>
              /\ ent.pixel_pos = grid_to_pixel(ent.grid_pos)
              /\ (last.step <= TILE_SIZE /\ last.branch = "entered") =>
                    ent.grid_pos = Ahead(last.before)
        /\ Horizontal(last.before) => ent.pixel_pos[2] = grid_to_pixel(ent.grid_pos)[2]
        /\ Vertical(last.before) => ent.pixel_pos[1] = grid_to_pixel(ent.grid_pos)[1]

\* An agent part of the way along its tile enters the next cell.
C9_Witness ==
    /\ Updated /\ last.straight
    /\ last.branch = "entered"
    /\ last.before.pixel_pos # grid_to_pixel(last.before.grid_pos)
    /\ ent.grid_pos = Ahead(last.before)
    /\ Integrated(last.before, last.step) # grid_to_pixel(ent.grid_pos)

\* The update was accepted and the integrated position is beyond a world edge.
CrossedLeftEdge ==
    /\ Updated /\ last.branch \in {"wrapped", "entered"}
    /\ last.before.direction = <<-1, 0>>
    /\ Integrated(last.before, last.step)[1] < 0

CrossedRightEdge ==
    /\ Updated /\ last.branch \in {"wrapped", "entered"}
    /\ last.before.direction = <<1, 0>>
    /\ Integrated(last.before, last.step)[1] >= SCREEN_WIDTH

\* C10: an update that carries the agent across the left edge leaves it in
\* column GRID_WIDTH-1 of its row, and one across the right edge in column 0,
\* by the teleport as by the column adjustment.
C10_WrapMatchesPathfinder ==
    /\ CrossedLeftEdge => ent.grid_pos = <<GRID_WIDTH - 1, last.before.grid_pos[2]>>
    /\ CrossedRightEdge => ent.grid_pos = <<0, last.before.grid_pos[2]>>

\* C18: after an update that is not a teleport across the screen edge, the
\* tile containing pixel_pos, its column wrap-adjusted, is the agent's cell,
\* and pixel_pos is less than one tile from the centre of that cell on both
\* axes.
C18_PixelWithinCell ==
    (Updated /\ last.branch # "wrapped") =>
        /\ portal_adjust(pixel_to_grid(ent.pixel_pos)) = ent.grid_pos
        /\ Abs(ent.pixel_pos[1] - grid_to_pixel(ent.grid_pos)[1]) < TILE_SIZE
        /\ Abs(ent.pixel_pos[2] - grid_to_pixel(ent.grid_pos)[2]) < TILE_SIZE

\* An agent has stepped off the left edge by less than a tile and is in the
\* last column, by the column adjustment alone.
C18_Witness ==
    /\ Updated
    /\ last.branch = "entered"
    /\ last.before.grid_pos[1] = 0
    /\ Integrated(last.before, last.step)[1] < 0
    /\ ent.grid_pos = <<GRID_WIDTH - 1, last.before.grid_pos[2]>>
    /\ pixel_to_grid(ent.pixel_pos) = ent.grid_pos

-----------------------------------------------------------------------------
(* The game's world: Game.create on the 5 x 5 world. *)

\* The blueprint: walls above and below, a top corridor with a pellet, the
\* tunnel row open at both edges round a wall, a bottom corridor with the two
\* power pellets on either side of the player's start cell.
GameMaze ==
    << <<"X", "X", "X", "X", "X">>,
       <<"X", ".", " ", " ", "X">>,
       <<" ", " ", "X", " ", " ">>,
       <<"X", "o", " ", "o", "X">>,
       <<"X", "X", "X", "X", "X">> >>

\* GameMaze as Maze.grid, rows and columns from 0.
GameGrid == [y \in Rows |-> [x \in Cols |-> GameMaze[y + 1][x + 1]]]

\* Start cells and scatter corners of Blinky, Inky, Pinky and Clyde, and the
\* player's start cell: (13,11) (14,14) (12,14) (15,14), (25,1) (2,1) (1,29)
\* (26,29) and (13,23) in the code.  The last two corners are wall cells there.
GhostStarts == <<GHOST_HOME, <<3, 2>>, <<1, 2>>, <<3, 3>> >>
GhostCorners == << <<3, 1>>, <<1, 1>>, <<1, 4>>, <<3, 4>> >>
PacmanStart == <<2, 3>>

OpenCells(m) == {c \in Cells : valid_tile(m, c)}

\* pygame.Rect.colliderect of the two TILE_SIZE squares centred on the entities.
Collides(a, b) ==
    /\ Abs(a.pixel_pos[1] - b.pixel_pos[1]) < TILE_SIZE
    /\ Abs(a.pixel_pos[2] - b.pixel_pos[2]) < TILE_SIZE

\* reset_positions, for one pursuer: back to its start cell, heading left, Scatter.
ResetGhost(g, start_pos) ==
    set_mode([g EXCEPT !.grid_pos = start_pos, !.pixel_pos = grid_to_pixel(start_pos),
                       !.direction = DIRECTIONS[1]], "SCATTER")

-----------------------------------------------------------------------------
(* One pursuer: Ghost.update under the calls the game makes on it.  The      *)
(* player's cell, the elapsed scatter time and the mode of the one other     *)
(* pursuer of the list are inputs of update.                                 *)

MaxDt == 2

\* Elapsed times on both sides of the 4-second mark of the 12-second cycle.
ScatterTimes == {0, 5 * TicksPerSecond}

\* Where the player is seen: its start cell and the right end of the tunnel row.
PlayerCells == {PacmanStart, <<GRID_WIDTH - 1, 2>>}

\* The pursuers followed: Blinky, whose scatter corner is an open cell, and
\* Pinky, whose scatter corner is a wall cell.
Followed == {1, 3}

\* The modes the one other pursuer of the list is seen in.
OtherModes == {"CHASE", "FRIGHTENED"}

\* The list of pursuers update receives: the pursuer itself and mode-only
\* snapshots of the others.
Snapshots(g, others) == <<g>> \o [j \in DOMAIN others |-> [mode |-> others[j]]]

\* What is kept of the last call: for an update, the cell it started from, the
\* second cell of the path (the start cell itself when there is none), whether
\* the fallback ran and on which player cell and elapsed time, the direction
\* handed to update_position, the target tile the fallback left aside, the mode
\* the pursuer had before the call, the dt's added up since the pursuer
\* was frightened, and the cell on which an Eaten pursuer was caught.
NoUpdate == [op |-> "none", from |-> Zero, next_step |-> Zero, fallback |-> FALSE,
             handed |-> Zero, pacman_pos |-> Zero, scatter_timer |-> 0,
             target |-> Zero, was |-> "none", elapsed |-> 0, eaten_at |-> Zero]

InitGhost ==
    /\ maze = GameGrid
    /\ \E k \in Followed : ghosts = <<NewGhost(GhostStarts[k], GhostCorners[k])>>
    /\ pacman = NoPacman
    /\ game = NoGame
    /\ glast = NoUpdate
    /\ a_start = Zero
    /\ a_goals = {}
    /\ a_pc = "idle"
    /\ a_path = <<>>
    /\ search = NoSearch
    /\ ctx = NoCtx
    /\ decision = NoDecision
    /\ ent = NoEntity
    /\ last = NoCall

\* ghost.update(dt, pacman, scatter_timer, ghosts).  The elapsed time is read
\* by the fallback alone, so it is drawn only when the fallback runs; the record
\* keeps the player's cell and the elapsed time only when the fallback used them.
\* The frame time is drawn from dts, the player's cell from cells and the mode
\* of the other pursuer from others.
GhostUpdateWith(dts, cells, others) ==
    /\ \E dt \in dts, pacman_pos \in cells, other \in others :
          \E p \in {Pursuit(Snapshots(ghosts[1], <<other>>), 1, dt, pacman_pos, maze)} :
             \E st \in IF Len(p.path) >= 2 THEN {0} ELSE ScatterTimes :
                \E t \in {Pursue(p, dt, pacman_pos, st, maze)} :
                   /\ ghosts' = <<t.ghost>>
                   /\ glast' = [op |-> "update", from |-> ghosts[1].grid_pos,
                                next_step |-> IF t.fallback THEN ghosts[1].grid_pos
                                              ELSE t.path[2],
                                fallback |-> t.fallback, handed |-> t.handed,
                                pacman_pos |-> IF t.fallback THEN pacman_pos ELSE Zero,
                                scatter_timer |-> IF t.fallback THEN st ELSE 0,
                                target |-> IF t.fallback THEN t.target ELSE Zero,
                                was |-> ghosts[1].mode,
                                elapsed |-> IF ghosts[1].mode = "FRIGHTENED"
                                            THEN glast.elapsed + dt ELSE 0,
                                eaten_at |-> IF ghosts[1].mode = "EATEN"
                                             THEN glast.eaten_at ELSE Zero]
    /\ UNCHANGED <<maze, pacman, game>>
    /\ UNCHANGED <<a_start, a_goals, a_pc, a_path, search, ctx, decision, ent, last>>

GhostUpdate == GhostUpdateWith(1 .. MaxDt, PlayerCells, OtherModes)

\* Game.update, a power pellet eaten: ghost.set_mode(GhostMode.FRIGHTENED)
PowerActivated ==
    /\ ghosts' = <<set_mode(ghosts[1], "FRIGHTENED")>>
    /\ glast' = [NoUpdate EXCEPT !.op = "frighten"]
    /\ UNCHANGED <<maze, pacman, game>>
    /\ UNCHANGED <<a_start, a_goals, a_pc, a_path, search, ctx, decision, ent, last>>

\* handle_collisions, the player on a frightened pursuer:
\* ghost.set_mode(GhostMode.EATEN)
Caught ==
    /\ ghosts[1].mode = "FRIGHTENED"
    /\ ghosts' = <<set_mode(ghosts[1], "EATEN")>>
    /\ glast' = [NoUpdate EXCEPT !.op = "eat", !.eaten_at = ghosts[1].grid_pos]
    /\ UNCHANGED <<maze, pacman, game>>
    /\ UNCHANGED <<a_start, a_goals, a_pc, a_path, search, ctx, decision, ent, last>>

\* handle_collisions, the player on a pursuer that is neither frightened nor
\* eaten: reset_positions puts the pursuer back on its start cell.
LifeLost ==
    /\ ghosts[1].mode \notin {"FRIGHTENED", "EATEN"}
    /\ \E k \in Followed :
          /\ ghosts[1].home_corner = GhostCorners[k]
          /\ ghosts' = <<ResetGhost(ghosts[1], GhostStarts[k])>>
    /\ glast' = [NoUpdate EXCEPT !.op = "reset"]
    /\ UNCHANGED <<maze, pacman, game>>
    /\ UNCHANGED <<a_start, a_goals, a_pc, a_path, search, ctx, decision, ent, last>>

NextGhost == GhostUpdate \/ PowerActivated \/ Caught \/ LifeLost

SpecGhost == InitGhost /\ [][NextGhost]_vars


\* C11: a pursuer frightened with the full countdown, and neither eaten nor
\* frightened again since, is still Frightened after every update up to which
\* the dt's add up to less than the duration, and is Chase after the update
\* in which they reach it.
C11_FrightenedUntilExpiry ==
    [][(glast'.op = "update" /\ ghosts[1].mode = "FRIGHTENED")
          => /\ glast'.elapsed < FullCountdown => ghosts'[1].mode = "FRIGHTENED"
             /\ glast'.elapsed >= FullCountdown => ghosts'[1].mode = "CHASE"]_vars

\* A countdown has just run out, and the pursuer is back in Chase.
C11_Witness ==
    /\ glast.op = "update"
    /\ glast.elapsed >= FullCountdown
    /\ ghosts[1].mode = "CHASE"
    /\ ghosts[1].frightened_timer <= 0

CardinalUnit(v) ==
    /\ v[1] \in {-1, 0, 1}
    /\ v[2] \in {-1, 0, 1}
    /\ (v[1] = 0) # (v[2] = 0)

\* C13: an update of an Eaten pursuer leaves it in Chase exactly when it was
\* at the centre of the home cell, and Eaten otherwise.
C13_RespawnAtHomeOnly ==
    [][(glast'.op = "update" /\ ghosts[1].mode = "EATEN")
          => IF is_at_center(ghosts[1]) /\ ghosts[1].grid_pos = GHOST_HOME
             THEN ghosts'[1].mode = "CHASE"
             ELSE ghosts'[1].mode = "EATEN"]_vars

\* An eaten pursuer has just respawned on the home cell.
C13_Witness ==
    /\ glast.op = "update"
    /\ glast.was = "EATEN"
    /\ glast.from = GHOST_HOME
    /\ ghosts[1].mode = "CHASE"
    /\ ghosts[1].grid_pos = GHOST_HOME

\* The directions open to pursuer g: the cell is traversable, and it is not
\* the reversal of a non-zero current direction.
OpenDirections(g) ==
    {k \in 1 .. 4 : /\ valid_tile(maze, portal_adjust(Plus(g.grid_pos, DIRECTIONS[k])))
                    /\ g.direction = Zero \/ DIRECTIONS[k] # Minus(Zero, g.direction)}

\* The direction towards target: the open direction whose cell is nearest to
\* target, the first of them in the order left, right, up, down; the reversed
\* direction when none is open.
DirectionTowards(g, target) ==
    LET dist(k) == SquaredDistance(portal_adjust(Plus(g.grid_pos, DIRECTIONS[k])), target)
        open == OpenDirections(g)
    IN  IF open = {} THEN Minus(Zero, g.direction)
        ELSE DIRECTIONS[CHOOSE k \in open :
                           \A j \in open : dist(k) < dist(j) \/ (dist(k) = dist(j) /\ k <= j)]

\* The target of the fallback for a pursuer of the given mode and corner.
ScheduleTarget(mode, home_corner, pacman_pos, scatter_timer) ==
    CASE mode = "EATEN" -> GHOST_HOME
      [] mode = "FRIGHTENED" -> <<GRID_WIDTH - pacman_pos[1], GRID_HEIGHT - pacman_pos[2]>>
      [] mode = "SCATTER" -> home_corner
      [] OTHER -> IF (scatter_timer \div TicksPerSecond) % 12 < 4 THEN home_corner
                  ELSE pacman_pos

\* C16, as stated: without a usable path, the direction handed to the movement
\* model is the one towards the target tile of the tick (the home cell of an
\* eaten pursuer, the behaviour engine's target otherwise).
C16_FallbackTowardsEngineTarget ==
    [][(glast'.op = "update" /\ glast'.fallback)
          => glast'.handed = DirectionTowards(ghosts[1], glast'.target)]_vars

\* C16, amended: without a usable path, an eaten pursuer at the centre of the
\* home cell respawns heading left; any other pursuer is handed the direction
\* towards the target of choose_target: the home cell if eaten, the mirrored
\* player cell if frightened, the scatter corner in Scatter mode or in the
\* first 4 seconds of each 12 of the elapsed time, the player's cell otherwise.
C16_FallbackTowardsScheduleTarget ==
    [][(glast'.op = "update" /\ glast'.fallback)
          => IF ghosts[1].mode = "EATEN" /\ is_at_center(ghosts[1])
                /\ ghosts[1].grid_pos = GHOST_HOME
             THEN glast'.handed = DIRECTIONS[1] /\ ghosts'[1].mode = "CHASE"
             ELSE glast'.handed =
                     DirectionTowards(ghosts[1],
                                      ScheduleTarget(ghosts'[1].mode, ghosts[1].home_corner,
                                                     glast'.pacman_pos,
                                                     glast'.scatter_timer))]_vars

\* The fallback has steered a Chase pursuer towards the player while the
\* behaviour engine's target was the scatter corner.
C16_Witness ==
    /\ glast.op = "update"
    /\ glast.fallback
    /\ glast.was = "CHASE"
    /\ ghosts[1].mode = "CHASE"
    /\ glast.target = ghosts[1].home_corner
    /\ glast.scatter_timer = 5 * TicksPerSecond
    /\ glast.handed = ghosts[1].direction
    /\ ghosts[1].grid_pos # glast.from

\* C20: with a path of at least two cells, the direction handed to the
\* movement model leads from the pursuer's cell to path[1], across the wrap
\* edge included.
C20_DirectionLeadsToNextStep ==
    (glast.op = "update" /\ ~glast.fallback)
        => /\ CardinalUnit(glast.handed)
           /\ portal_adjust(Plus(glast.from, glast.handed)) = glast.next_step

-----------------------------------------------------------------------------
(* game.py: Game.  The world w is the record of maze, pacman, ghosts and the *)
(* game's own fields.                                                         *)

\* Mutation of reset_positions: the pellets are put back.
reset_positions_regrows(w, lost_life) ==
    IF lost_life /\ w.game.lives - 1 <= 0
    THEN [w EXCEPT !.game.lives = @ - 1, !.game.running = FALSE]
    ELSE [w EXCEPT !.game.lives = IF lost_life THEN @ - 1 ELSE @,
                   !.maze = GameGrid,
                   !.ghosts = [i \in DOMAIN w.ghosts |->
                                  ResetGhost(w.ghosts[i], GhostStarts[i])],
                   !.pacman = enable_autopilot([@ EXCEPT !.grid_pos = PacmanStart,
                                                         !.pixel_pos = grid_to_pixel(PacmanStart),
                                                         !.direction = Zero], FALSE)]

\* Game.reset_positions(lost_life)
reset_positions(w, lost_life) ==
    IF lost_life /\ w.game.lives - 1 <= 0
    THEN [w EXCEPT !.game.lives = @ - 1, !.game.running = FALSE]
    ELSE LET home == [w.pacman EXCEPT !.grid_pos = PacmanStart,
                                      !.pixel_pos = grid_to_pixel(PacmanStart),
                                      !.direction = Zero]
             off == enable_autopilot(home, FALSE)
         IN  [w EXCEPT !.game.lives = IF lost_life THEN @ - 1 ELSE @,
                       !.ghosts = [i \in DOMAIN w.ghosts |->
                                      ResetGhost(w.ghosts[i], GhostStarts[i])],
                       !.pacman = IF w.game.auto_replan
                                  THEN compute_autopilot_path(off, w.maze,
                                                              remaining_pellets(w.maze))
                                  ELSE off]

\* Game.update, before the entities move: a drained queue ends autopilot, and
\* replan mode plans again.
Drained(w) ==
    LET ended == IF w.pacman.autopilot_enabled /\ w.pacman.auto_queue = <<>>
                 THEN IF w.game.auto_replan
                      THEN compute_autopilot_path(enable_autopilot(w.pacman, FALSE), w.maze,
                                                  remaining_pellets(w.maze))
                      ELSE enable_autopilot(w.pacman, FALSE)
                 ELSE w.pacman
    IN  [w EXCEPT !.pacman = IF w.game.auto_replan /\ ~ended.autopilot_enabled
                             THEN compute_autopilot_path(ended, w.maze,
                                                         remaining_pellets(w.maze))
                             ELSE ended]

RECURSIVE GhostsUpdated(_, _, _, _, _, _)
\* for ghost in self.ghosts: ghost.update(dt, self.pacman, self.scatter_timer,
\* self.ghosts), from pursuer i on.
GhostsUpdated(gs, i, dt, pacman_pos, scatter_timer, m) ==
    IF i > Len(gs) THEN gs
    ELSE CHOOSE r \in {GhostsUpdated([gs EXCEPT ![i] = g], i + 1, dt, pacman_pos,
                                     scatter_timer, m) :
                          g \in {Ghost_update(gs, i, dt, pacman_pos, scatter_timer, m)}} : TRUE

\* Game.update: the player moves, then the pursuers in turn.
Moved(w, dt) ==
    CHOOSE r \in {[w EXCEPT !.pacman = p,
                            !.ghosts = GhostsUpdated(w.ghosts, 1, dt, p.grid_pos,
                                                     w.game.scatter_timer, w.maze)] :
                     p \in {Pacman_update(w.pacman, dt, w.maze)}} : TRUE

\* Game.update, the power pellet: for ghost in self.ghosts:
\* ghost.set_mode(GhostMode.FRIGHTENED)
Frightened(gs) == [i \in DOMAIN gs |-> set_mode(gs[i], "FRIGHTENED")]

\* Game.update: the player at a cell centre consumes the tile it is on.
Consumed(w) ==
    IF ~is_at_center(w.pacman) THEN w
    ELSE LET c == w.pacman.grid_pos
             tile_value == w.maze[c[2]][c[1]]
             eaten == consume_tile(w.maze, c)
         IN  [w EXCEPT !.maze = eaten,
                       !.game.score = @ + (CASE tile_value = "." -> 10
                                             [] tile_value = "o" -> 50
                                             [] OTHER -> 0),
                       !.ghosts = IF tile_value = "o" THEN Frightened(@) ELSE @,
                       !.pacman = IF tile_value \in {".", "o"} /\ w.game.auto_replan
                                  THEN compute_autopilot_path(@, eaten, remaining_pellets(eaten))
                                  ELSE @]

RECURSIVE Collided_any(_, _, _)
\* Mutation of Collided: a pursuer is caught whatever its mode.
Collided_any(w, i, pac) ==
    IF i > Len(w.ghosts) THEN w
    ELSE IF ~Collides(pac, w.ghosts[i]) THEN Collided_any(w, i + 1, pac)
    ELSE IF w.ghosts[i].mode # "EATEN"
    THEN Collided_any([w EXCEPT !.ghosts[i] = set_mode(@, "EATEN"), !.game.score = @ + 200],
                      i + 1, pac)
    ELSE Collided_any(w, i + 1, pac)

RECURSIVE Collided(_, _, _)
\* The loop of handle_collisions from pursuer i on; pac is the player as it was
\* when pac_rect was taken.
Collided(w, i, pac) ==
    IF i > Len(w.ghosts) THEN w
    ELSE IF ~Collides(pac, w.ghosts[i]) THEN Collided(w, i + 1, pac)
    ELSE IF w.ghosts[i].mode = "FRIGHTENED"
    THEN Collided([w EXCEPT !.ghosts[i] = set_mode(@, "EATEN"), !.game.score = @ + 200],
                  i + 1, pac)
    ELSE IF w.ghosts[i].mode # "EATEN"
    THEN Collided(reset_positions(w, TRUE), i + 1, pac)
    ELSE Collided(w, i + 1, pac)

handle_collisions(w) == Collided(w, 1, w.pacman)

\* Game.update(dt)
Game_update(w, dt) ==
    IF ~w.game.running THEN w
    ELSE CHOOSE r \in {handle_collisions(c) :
                          c \in {Consumed(v) : v \in {Moved(u, dt) : u \in {Drained(w)}}}} : TRUE

\* Game.handle_mouse_click(pos), pos in cell c.
handle_mouse_click(w, c) ==
    IF c \notin Cells \/ ~valid_tile(w.maze, c) THEN w
    ELSE [w EXCEPT !.game.auto_replan = FALSE,
                   !.pacman = compute_autopilot_path(@, w.maze, {c})]

\* Game.toggle_auto_replan()
toggle_auto_replan(w) ==
    IF ~w.game.auto_replan
    THEN [w EXCEPT !.game.auto_replan = TRUE,
                   !.pacman = compute_autopilot_path(@, w.maze, remaining_pellets(w.maze))]
    ELSE [w EXCEPT !.game.auto_replan = FALSE, !.pacman = enable_autopilot(@, FALSE)]

\* Game.handle_events() with at most one event in the queue; an arrow key that
\* goes down is held for the frame.
handle_events(w, event) ==
    CASE event.type = "quit" -> [w EXCEPT !.game.running = FALSE]
      [] event.type = "toggle" -> toggle_auto_replan(w)
      [] event.type = "click" -> handle_mouse_click(w, event.at)
      [] event.type = "key" ->
            LET off == IF w.pacman.autopilot_enabled \/ w.game.auto_replan
                       THEN [w EXCEPT !.pacman = enable_autopilot(@, FALSE),
                                      !.game.auto_replan = FALSE]
                       ELSE w
            IN  [off EXCEPT !.pacman = handle_input(@, event.at)]
      [] OTHER -> w

-----------------------------------------------------------------------------
(* The session: Game.run, one frame at a time. *)

\* The frame time, in ticks.
FrameDts == 1 .. MaxDt

\* The session is followed for MaxTime ticks.
MaxTime == 7

\* The cells clicked: the pellet of the top corridor and the wall of the
\* tunnel row.
ClickCells == {<<1, 1>>, <<2, 2>>}

Events ==
    {[type |-> "none", at |-> Zero], [type |-> "quit", at |-> Zero],
     [type |-> "toggle", at |-> Zero]}
    \cup {[type |-> "key", at |-> DIRECTIONS[k]] : k \in 1 .. 4}
    \cup {[type |-> "click", at |-> c] : c \in ClickCells}

World == [maze |-> maze, pacman |-> pacman, ghosts |-> ghosts, game |-> game]

\* The next queued direction of player p leads to a cell of m that is not
\* traversable, and p is at a cell centre.
PilotInvalid(p, m) ==
    /\ p.auto_queue # <<>>
    /\ is_at_center(p)
    /\ ~valid_tile(m, portal_adjust(Plus(p.grid_pos, Head(p.auto_queue))))

\* What is kept of the last frame: how update() found autopilot ("drained":
\* enabled with an empty queue, "invalid": enabled with an invalid next step, or
\* "none"), whether a power pellet was eaten, the pursuers that were Eaten just
\* before it was and those that were Frightened with the full countdown just
\* after, the cell the player was on after it moved, and, as handle_collisions
\* found them, the pursuers' modes and the pursuers whose tile overlapped the
\* player's.  goal is <<c>> from the click that planned a way to cell c until
\* the next key, toggle, planning click or lost life, and reached tells
\* whether the player has been on c at the end of a frame since.
NoFrame == [op |-> "none", pilot |-> "none", power |-> FALSE, eaten_before |-> {},
            frightened_after |-> {}, at |-> Zero, met |-> <<>>, touching |-> {},
            goal |-> <<>>, reached |-> FALSE]

\* The goal of the single-goal plan in force after a frame that handled event,
\* left the world w after handle_events and the world v at its end.
GoalAfter(event, h, v) ==
    IF v.game.lives < game.lives \/ event.type \in {"key", "toggle", "quit"} THEN <<>>
    ELSE IF event.type = "click" /\ valid_tile(h.maze, event.at)
    THEN IF h.pacman.autopilot_enabled THEN <<event.at>> ELSE <<>>
    ELSE glast.goal

\* Game.create and the reset_positions() that opens run().
InitGame ==
    /\ \E w \in {reset_positions(
                    [maze |-> GameGrid,
                     pacman |-> enable_autopilot(NewPacman(PacmanStart), FALSE),
                     ghosts |-> [k \in 1 .. NumGhosts |->
                                    NewGhost(GhostStarts[k], GhostCorners[k])],
                     game |-> [score |-> 0, lives |-> PACMAN_LIVES, running |-> TRUE,
                               auto_replan |-> FALSE, scatter_timer |-> 0]],
                    FALSE)} :
          /\ maze = w.maze
          /\ pacman = w.pacman
          /\ ghosts = w.ghosts
          /\ game = w.game
    /\ glast = NoFrame
    /\ a_start = Zero
    /\ a_goals = {}
    /\ a_pc = "idle"
    /\ a_path = <<>>
    /\ search = NoSearch
    /\ ctx = NoCtx
    /\ decision = NoDecision
    /\ ent = NoEntity
    /\ last = NoCall

\* One turn of the loop of run(): the clock, handle_events(), update(dt), with
\* the frame time drawn from dts, the event from events, and the session
\* followed for cap ticks.
FrameWith(dts, events, cap) ==
    /\ game.running
    /\ \E dt \in dts, event \in events :
          /\ game.scatter_timer + dt <= cap
          /\ \E h \in {handle_events([World EXCEPT !.game.scatter_timer = @ + dt], event)} :
             \E v \in {IF h.game.running THEN Moved(Drained(h), dt) ELSE h} :
             \E c \in {IF h.game.running THEN Consumed(v) ELSE h} :
             \E w \in {IF h.game.running THEN handle_collisions(c) ELSE h} :
                /\ maze' = w.maze
                /\ pacman' = w.pacman
                /\ ghosts' = w.ghosts
                /\ game' = w.game
                /\ glast' = [op |-> "frame",
                             pilot |-> CASE ~h.game.running \/ ~h.pacman.autopilot_enabled
                                              -> "none"
                                         [] h.pacman.auto_queue = <<>> -> "drained"
                                         [] PilotInvalid(h.pacman, h.maze) -> "invalid"
                                         [] OTHER -> "none",
                             power |-> h.game.running /\ c.maze # v.maze
                                       /\ v.maze[v.pacman.grid_pos[2]][v.pacman.grid_pos[1]] = "o",
                             eaten_before |-> {i \in DOMAIN v.ghosts : v.ghosts[i].mode = "EATEN"},
                             frightened_after |->
                                {i \in DOMAIN c.ghosts :
                                    /\ c.ghosts[i].mode = "FRIGHTENED"
                                    /\ c.ghosts[i].frightened_timer = FullCountdown},
                             at |-> v.pacman.grid_pos,
                             met |-> [i \in DOMAIN c.ghosts |-> c.ghosts[i].mode],
                             touching |-> {i \in DOMAIN c.ghosts :
                                              Collides(c.pacman, c.ghosts[i])},
                             goal |-> GoalAfter(event, h, w),
                             reached |-> /\ GoalAfter(event, h, w) # <<>>
                                         /\ \/ w.pacman.grid_pos = GoalAfter(event, h, w)[1]
                                            \/ /\ glast.reached
                                               /\ GoalAfter(event, h, w) = glast.goal
                                               /\ event.type # "click"]
    /\ UNCHANGED <<a_start, a_goals, a_pc, a_path, search, ctx, decision, ent, last>>

\* A turn of the loop at the frame rate the clock keeps.
Frame == FrameWith(FrameDts, Events, MaxTime)

NextGame == Frame

SpecGame == InitGame /\ [][NextGame]_vars

\* C12: when a power pellet is eaten, the pursuers Frightened with the full
\* countdown right after the trigger are exactly those that were not Eaten
\* right before it.
C12_PowerSparesEaten ==
    glast.power => glast.frightened_after = (1 .. NumGhosts) \ glast.eaten_before

\* C15: with autopilot enabled and replan mode off, update() leaves autopilot
\* off and the queue empty when it finds the queue drained, and leaves the
\* queue empty (autopilot then ends with the next update) when it finds the
\* player at a cell centre with an invalid next step; the session keeps
\* running unless the frame's collisions take the last life.
C15_AutopilotEndsQuietly ==
    (glast.op = "frame" /\ ~game.auto_replan) =>
        /\ glast.pilot = "drained" => ~pacman.autopilot_enabled /\ pacman.auto_queue = <<>>
        /\ glast.pilot = "invalid" => pacman.auto_queue = <<>>
        /\ glast.pilot # "none" => game.running \/ game.lives <= 0

\* update() has just found an invalid next step and cleared the queue.
C15_Witness ==
    /\ glast.op = "frame"
    /\ glast.pilot = "invalid"
    /\ ~game.auto_replan
    /\ game.running
    /\ pacman.autopilot_enabled
    /\ pacman.auto_queue = <<>>

\* C17: whatever the step, a cell of the grid changes only from pellet or
\* power pellet to open, in a frame, at the cell the player was on after it
\* moved.
C17_GridChangesByConsumptionOnly ==
    [][\A c \in Cells :
          maze'[c[2]][c[1]] # maze[c[2]][c[1]]
             => /\ maze[c[2]][c[1]] \in {".", "o"}
                /\ maze'[c[2]][c[1]] = " "
                /\ glast'.op = "frame"
                /\ c = glast'.at]_vars

\* A life has just been lost after a pellet was eaten: the pellet has not
\* come back, and the player is on its start cell again.
C17_Witness ==
    /\ glast.op = "frame"
    /\ game.lives < PACMAN_LIVES
    /\ game.running
    /\ pacman.grid_pos = PacmanStart
    /\ glast.at # PacmanStart
    /\ \E c \in Cells : GameGrid[c[2]][c[1]] \in {".", "o"} /\ maze[c[2]][c[1]] = " "

-----------------------------------------------------------------------------
(* The autopilot planner: compute_autopilot_path on a grid, from the player's *)
(* cell, with the targets of a click or the default targets.                  *)

\* m with a pellet in each open cell of ps.
WithPellets(m, ps) ==
    [y \in Rows |-> [x \in Cols |-> IF <<x, y>> \in ps /\ m[y][x] = " " THEN "." ELSE m[y][x]]]

\* The cells that may hold a pellet: two corners of the world.
PelletZone == {<<GRID_WIDTH - 1, GRID_HEIGHT - 1>>, <<0, GRID_HEIGHT - 1>>}

NoPlan == [op |-> "none", was_enabled |-> FALSE]

\* The cells the player plans from.
PlanStarts == {<<0, 0>>, <<2, 2>>, <<GRID_WIDTH - 1, 1>>}

InitPlan ==
    /\ \E ws \in UpTo(WallZone, MaxWalls), ps \in {{}, PelletZone} :
          maze = WithPellets(GridOf(ws), ps)
    /\ \E c \in PlanStarts \cap OpenCells(maze) : pacman = NewPacman(c)
    /\ ghosts = <<>>
    /\ game = [NoGame EXCEPT !.running = TRUE]
    /\ glast = NoPlan
    /\ a_start = Zero
    /\ a_goals = {}
    /\ a_pc = "idle"
    /\ a_path = <<>>
    /\ search = NoSearch
    /\ ctx = NoCtx
    /\ decision = NoDecision
    /\ ent = NoEntity
    /\ last = NoCall

\* compute_autopilot_path(targets); a_start, a_goals and a_path keep the
\* pathfinder's arguments and result (no call, an empty path, without targets).
PlanWith(targets_set) ==
    /\ pacman' = compute_autopilot_path(pacman, maze, targets_set)
    /\ a_start' = pacman.grid_pos
    /\ a_goals' = targets_set
    /\ a_path' = IF targets_set = {} THEN <<>>
                 ELSE astar_path(maze, pacman.grid_pos, targets_set)
    /\ UNCHANGED <<maze, ghosts, game, a_pc, search, ctx, decision, ent, last>>

\* compute_autopilot_path({(grid_x, grid_y)}), as handle_mouse_click calls it.
PlanTargets ==
    /\ \E c \in Cells : PlanWith({c})
    /\ glast' = [op |-> "targets", was_enabled |-> pacman.autopilot_enabled]

\* compute_autopilot_path(): the targets are the remaining pellets.
PlanPellets ==
    /\ PlanWith(remaining_pellets(maze))
    /\ glast' = [op |-> "pellets", was_enabled |-> pacman.autopilot_enabled]

NextPlan == PlanTargets \/ PlanPellets

SpecPlan == InitPlan /\ [][NextPlan]_vars

PlanMade == glast.op \in {"targets", "pellets"}

\* C14: whatever path the pathfinder returned, across the wrap edge or not,
\* the queue compute_autopilot_path leaves has one direction per step of the
\* path, and each is a cardinal unit vector.
C14_QueueOfUnitVectors ==
    (PlanMade /\ Len(a_path) >= 2)
        => /\ pacman.autopilot_enabled
           /\ Len(pacman.auto_queue) = Len(a_path) - 1
           /\ \A k \in 1 .. Len(pacman.auto_queue) : CardinalUnit(pacman.auto_queue[k])

\* A plan whose path crosses the wrap edge.
C14_Witness ==
    /\ PlanMade
    /\ CrossesWrap(a_path)
    /\ Len(pacman.auto_queue) = Len(a_path) - 1

\* C19: without targets, or with a path of fewer than two cells, the planner
\* leaves autopilot off and the queue empty, and the session running.
C19_NoPlanDisablesAutopilot ==
    (PlanMade /\ (a_goals = {} \/ Len(a_path) < 2))
        => /\ ~pacman.autopilot_enabled
           /\ pacman.auto_queue = <<>>
           /\ game.running

\* A plan in progress is dropped by a click on the player's own cell.
C19_Witness ==
    /\ glast.op = "targets"
    /\ glast.was_enabled
    /\ a_path = <<pacman.grid_pos>>
    /\ ~pacman.autopilot_enabled
    /\ pacman.auto_queue = <<>>

RECURSIVE Replay(_, _)
\* The cells visited from cell by taking the directions in turn, each with the
\* wrap adjustment.
Replay(cell, directions) ==
    IF directions = <<>> THEN <<>>
    ELSE LET nxt == portal_adjust(Plus(cell, Head(directions)))
         IN  <<nxt>> \o Replay(nxt, Tail(directions))

\* C22: for a path of at least two cells, the queue has one direction per
\* step, and replaying it from the first cell of the path visits the rest of
\* the path in order.
C22_QueueReplaysPath ==
    (PlanMade /\ Len(a_path) >= 2)
        => /\ Len(pacman.auto_queue) = Len(a_path) - 1
           /\ <<a_path[1]>> \o Replay(a_path[1], pacman.auto_queue) = a_path

\* The queue of a plan of three cells or more whose path crosses the wrap
\* edge ends on the goal.
C22_Witness ==
    /\ glast.op = "targets"
    /\ Len(a_path) >= 3
    /\ CrossesWrap(a_path)
    /\ Replay(a_path[1], pacman.auto_queue)[Len(pacman.auto_queue)] \in a_goals

\* C21: over a frame the player's direction becomes another non-zero
\* direction only if the player was at its cell centre and the wrap-adjusted
\* neighbouring cell in the new direction is traversable, and the new direction
\* is the desired one; otherwise the direction is kept or becomes zero.
C21_TurnsOnlyAtCentre ==
    [][(glast'.op = "frame" /\ pacman'.direction # pacman.direction
          /\ pacman'.direction # Zero)
          => /\ is_at_center(pacman)
             /\ valid_tile(maze, portal_adjust(Plus(pacman.grid_pos, pacman'.direction)))
             /\ pacman'.direction = pacman'.desired_direction]_vars

\* The player, which can only leave its start cell sideways, is heading up
\* the left column: it has turned at a cell centre.
C21_Witness ==
    /\ glast.op = "frame"
    /\ game.lives = PACMAN_LIVES
    /\ pacman.direction = DIRECTIONS[3]
    /\ pacman.grid_pos[1] = 1
    /\ pacman.grid_pos[2] < PacmanStart[2]

\* The pursuers whose collision costs a life: those handle_collisions finds
\* on the player's tile in Scatter or Chase.
Lethal(f) == {i \in f.touching : f.met[i] \notin {"FRIGHTENED", "EATEN"}}

\* C23: over a frame, a pursuer is Eaten when handle_collisions runs only if
\* it was Eaten before the frame; a pursuer Eaten after the frame was Eaten or
\* Frightened when handle_collisions ran, and in the second case its tile
\* overlapped the player's; and when an Eaten pursuer overlaps the player and no
\* pursuer in Scatter or Chase does, no life is lost and it stays Eaten.
C23_EatenOnlyWhenCaughtFrightened ==
    [][glast'.op = "frame"
          => \A i \in DOMAIN ghosts :
                /\ glast'.met[i] = "EATEN" => ghosts[i].mode = "EATEN"
                /\ ghosts'[i].mode = "EATEN" => glast'.met[i] \in {"EATEN", "FRIGHTENED"}
                /\ (ghosts'[i].mode = "EATEN" /\ glast'.met[i] = "FRIGHTENED")
                      => i \in glast'.touching
                /\ (glast'.met[i] = "EATEN" /\ i \in glast'.touching /\ Lethal(glast') = {})
                      => game'.lives = game.lives /\ ghosts'[i].mode = "EATEN"]_vars

\* The player's tile has overlapped an Eaten pursuer's, at no cost.
C23_Witness ==
    /\ glast.op = "frame"
    /\ game.running
    /\ game.lives = PACMAN_LIVES
    /\ \E i \in DOMAIN ghosts :
          /\ i \in glast.touching
          /\ glast.met[i] = "EATEN"
          /\ ghosts[i].mode = "EATEN"


(***************************************************************************)
(* A session with stalled frames.  run() passes clock.tick(FPS) / 1000 to  *)
(* update() as it is: when the loop is held up, the next frame carries the *)
(* whole delay as its dt.                                                   *)
(***************************************************************************)

\* The frame time of a stalled turn of the loop, in ticks.
StallDt == 8

\* The session with stalled frames is followed for StallTime ticks.
StallTime == 10

StallDts == {1, StallDt}

StallEvents == {e \in Events : e.type \in {"none", "key"}}

\* A turn of the loop that took 1 tick or StallDt ticks.
StalledFrame == FrameWith(StallDts, StallEvents, StallTime)

NextStall == StalledFrame

SpecStall == InitGame /\ [][NextStall]_vars

\* C24: in every reachable state of the session, the grid cell of the player
\* and of every pursuer is inside the grid and is not a wall.
C24_CellsAreOpen ==
    /\ valid_tile(maze, pacman.grid_pos)
    /\ \A i \in DOMAIN ghosts : valid_tile(maze, ghosts[i].grid_pos)


(***************************************************************************)
(* The way home of an Eaten pursuer.  run() calls update() on every turn of *)
(* its loop, so the pursuer's update is never put off for ever; the power   *)
(* trigger is left aside while the pursuer is Eaten.  The loop runs at full *)
(* rate or slowly: dt is clock.tick(FPS) / 1000, whatever the frame took.   *)
(***************************************************************************)

\* The frame time of a slow turn of the loop, in ticks.
SlowDt == 4

\* A power pellet eaten while the pursuer is not on its way home.
PowerAway == ghosts[1].mode # "EATEN" /\ PowerActivated

\* update() with the player on its start cell and the other pursuer in Chase,
\* in a turn of the loop that took 1 tick or SlowDt ticks.
HomeUpdate == GhostUpdateWith({1, SlowDt}, {PacmanStart}, {"CHASE"})

NextReturn == HomeUpdate \/ PowerAway \/ Caught \/ LifeLost

\* The update of a pursuer that is on its way home.
ReturnUpdate == ghosts[1].mode = "EATEN" /\ HomeUpdate

\* Blinky, on its start cell.
InitReturn == InitGhost /\ ghosts[1].home_corner = GhostCorners[1]

SpecReturn == InitReturn /\ [][NextReturn]_vars /\ WF_vars(ReturnUpdate)

\* The update that has just run found the pursuer Eaten and left it in Chase,
\* at the centre of the home cell.
Respawned ==
    /\ glast.op = "update"
    /\ glast.was = "EATEN"
    /\ ghosts[1].mode = "CHASE"
    /\ ghosts[1].grid_pos = GHOST_HOME
    /\ is_at_center(ghosts[1])

\* C25: a pursuer that enters Eaten eventually leaves Eaten for Chase, at the
\* centre of the home cell, under repeated updates with positive dt.
C25_EatenReturnsHome == (ghosts[1].mode = "EATEN") ~> Respawned



\* Player p will not move again without input: it has no direction, and the
\* direction it desires, if any, leads into a wall from the centre it is on.
AtRest(p, m) ==
    /\ p.direction = Zero
    /\ is_at_center(p)
    /\ \/ p.desired_direction = Zero
       \/ ~valid_tile(m, portal_adjust(Plus(p.grid_pos, p.desired_direction)))

\* C26: after a click that plans a way to a single reachable goal cell, with
\* no key, toggle, further click or lost life since, the player is not left at
\* rest with autopilot off before it has been on the goal cell.
C26_ClickReachesGoal ==
    (glast.goal # <<>> /\ ~pacman.autopilot_enabled /\ AtRest(pacman, maze))
        => glast.reached


(***************************************************************************)
(* A session steered by clicks alone: no key is pressed and auto-replan is *)
(* never toggled.                                                           *)
(***************************************************************************)

\* The cells clicked: the left part of the tunnel row and the right end of the
\* top corridor.
PilotGoals == {<<1, 2>>, <<3, 1>>}

PilotEvents ==
    {[type |-> "none", at |-> Zero]} \cup {[type |-> "click", at |-> c] : c \in PilotGoals}

\* A turn of the loop with no event or a click on a goal cell.
PilotFrame == FrameWith(FrameDts, PilotEvents, MaxTime)

NextPilot == PilotFrame

SpecPilot == InitGame /\ [][NextPilot]_vars

\* C27: once the plan to a single goal cell is over (autopilot off) and the
\* player, with no key, toggle, further click or lost life since the click, has
\* been on the goal cell, it is on the goal cell, at its centre, when it is at
\* rest.
C27_RestsOnGoal ==
    (glast.goal # <<>> /\ glast.reached /\ ~pacman.autopilot_enabled
        /\ AtRest(pacman, maze))
        => pacman.grid_pos = glast.goal[1]

====
